---- MODULE Spec2Model ----
(***************************************************************************)
(* flaskext.payments: the Payments facade, the Transaction value object    *)
(* and the PayPalGateway, as a state machine.                              *)
(*                                                                         *)
(* An attribute a Python object does not have is the value Absent; reading *)
(* it raises AttributeError.  A name the module never binds raises         *)
(* NameError when it is evaluated.  The paypal library (PayPalConfig,      *)
(* PayPalInterface) is outside the repository: what it answers is an input *)
(* of the action that calls it.                                            *)
(***************************************************************************)
EXTENDS Naturals, FiniteSets, TLC

VARIABLES
    config,     \* app.config, fixed for the life of the application
    payments,   \* the attributes of the Payments instance
    gateway,    \* the attributes of the PayPalGateway instance it is bound to
    alive,      \* the Transaction objects constructed so far
    trans,      \* the attributes of every Transaction object
    returned,   \* the transactions Payments.authorise has handed back
    ctorRuns,   \* whether PayPalGateway.__init__ was ever entered
    last        \* what the last call did and how it ended

vars == <<config, payments, gateway, alive, trans, returned, ctorRuns, last>>

-----------------------------------------------------------------------------
(* Bounds *)

NumTrans == 2

TransIds == 1..NumTrans

-----------------------------------------------------------------------------
(* Values *)

Absent == "absent"
None == "None"
NoErr == "none"

\* the paypal library took the arguments it was constructed with
Accepted == "Accepted"

\* the three exception classes of the module, and the built-in ones
PaymentsConfigurationError == "PaymentsConfigurationError"
PaymentsValidationError == "PaymentsValidationError"
PaymentsErrorFromGateway == "PaymentsErrorFromGateway"
NameError == "NameError"
AttributeError == "AttributeError"
KeyError == "KeyError"
LibraryError == "LibraryError"

\* raise PaymentTransactionValidationError(): the name is bound nowhere in the
\* module, so evaluating it raises NameError before anything is constructed
PaymentTransactionValidationError == NameError

Credentials == {"PAYPAL_API_USER", "PAYPAL_API_PWD", "PAYPAL_API_SIGNATURE"}

Tokens == {"EC-1"}
TransactionIds == {"TX-1", "TX-2"}

\* what the processor answers to a call: a success response, a failure
\* response (returned as an object that lacks the result fields), or an
\* exception raised by the library
NoResponse == [ack |-> Absent, token |-> Absent, TRANSACTIONID |-> Absent]
SetResponses ==
    {[ack |-> "Success", token |-> k, TRANSACTIONID |-> Absent] : k \in Tokens}
    \cup {[NoResponse EXCEPT !.ack = "Failure"], [NoResponse EXCEPT !.ack = "Raised"]}
DoResponses ==
    {[ack |-> "Success", token |-> Absent, TRANSACTIONID |-> x] : x \in TransactionIds}
    \cup {[NoResponse EXCEPT !.ack = "Failure"], [NoResponse EXCEPT !.ack = "Raised"]}

\* app.config: the gateway key (Absent when PAYMENT_API is not set) and the
\* PayPal credential fields that are set (all of them, or all but one)
Configs ==
    [api : {"PayPal"}, creds : {Credentials} \cup {Credentials \ {c} : c \in Credentials}]
    \cup [api : {"DoesNotExist", Absent}, creds : {Credentials}]

\* app.config.get(key): None when the key is not set
ConfigGet(cfg, key) == IF key \in cfg.creds THEN key ELSE None

\* a Python object with no attributes yet
NoPayments == [gateway |-> Absent, testing |-> Absent, app |-> Absent]
NoInterface ==
    [API_ENVIRONMENT |-> Absent, API_USERNAME |-> Absent,
     API_PASSWORD |-> Absent, API_SIGNATURE |-> Absent]
NoGateway == [interface |-> NoInterface]
NoTransaction ==
    [class |-> Absent, type |-> Absent, amt |-> Absent, payerid |-> Absent,
     token |-> Absent, next |-> Absent, transactionid |-> Absent,
     raw |-> NoResponse, authorised |-> FALSE]

\* the keyword arguments a caller constructs a Transaction with: a type (or
\* none), an amount (or none) under amt, the attribute the gateway reads, a
\* payer identifier when the caller builds the
\* transaction on the way back from the redirect, and possibly authorised
\* itself; class is the class instantiated: Transaction, or a subclass whose
\* validate() rejects
Kwarg(c, ty, a, p, au) ==
    [class |-> c, type |-> ty, amt |-> a, payerid |-> p, authorised |-> au]
Kwargs ==
    {Kwarg("Transaction", "Express", "10.00", p, au) :
        p \in {"PAYER1", Absent}, au \in {"True", Absent}}
    \cup {Kwarg("Transaction", ty, "10.00", Absent, au) :
        ty \in {"Direct", "Unknown", Absent}, au \in {"True", Absent}}
    \cup {Kwarg("Transaction", "Express", Absent, Absent, au) : au \in {"True", Absent}}
    \cup {Kwarg("Rejecting", "Express", "10.00", Absent, au) : au \in {"True", Absent}}

\* the names of the keyword arguments passed
KwargNames(kwargs) ==
    {k \in {"type", "amt", "payerid", "authorised"} : kwargs[k] # Absent}

\* the record of a call: the operation, the transaction, the exception raised
\* (NoErr: none), the value returned, whether a gateway method was entered,
\* how many requests reached the processor and what it answered; for a
\* construction, the keyword arguments passed
NoCall ==
    [op |-> "none", t |-> 0, err |-> NoErr, ret |-> None, gw |-> FALSE,
     proc |-> 0, kwargs |-> {}, resp |-> NoResponse]

\* how a method ends: the transaction, the gateway instance and the facade as
\* it leaves them, the exception it raises or the value it returns
Raise(tr, self, err, proc) ==
    [trans |-> tr, self |-> self, err |-> err, ret |-> None, proc |-> proc]
Return(tr, self, ret, proc) ==
    [trans |-> tr, self |-> self, err |-> NoErr, ret |-> ret, proc |-> proc]

-----------------------------------------------------------------------------
(* Transaction *)

\* Transaction.validate returns True; the subclass stands for a transaction
\* whose generic validation fails
validate(tr) == tr.class = "Transaction"

\* Transaction.__init__ with its two statements swapped: the default first,
\* then the keyword arguments over it
Transaction_DefaultFirst(kwargs) ==
    [NoTransaction EXCEPT !.class = kwargs.class, !.type = kwargs.type,
                          !.amt = kwargs.amt, !.payerid = kwargs.payerid,
                          !.authorised = (kwargs.authorised = "True")]

\* Transaction.__init__: the keyword arguments become attributes, then
\* authorised is set to False over whatever the caller passed
Transaction(kwargs) ==
    [NoTransaction EXCEPT !.class = kwargs.class, !.type = kwargs.type,
                          !.amt = kwargs.amt, !.payerid = kwargs.payerid,
                          !.authorised = FALSE]

-----------------------------------------------------------------------------
(* PayPalGateway: construction *)

\* the keyword arguments _init_API hands to PayPalConfig: every one is
\* passed, a field missing from app.config as None
PayPalConfig(cfg) ==
    [API_ENVIRONMENT |-> "sandbox",
     API_USERNAME |-> ConfigGet(cfg, "PAYPAL_API_USER"),
     API_PASSWORD |-> ConfigGet(cfg, "PAYPAL_API_PWD"),
     API_SIGNATURE |-> ConfigGet(cfg, "PAYPAL_API_SIGNATURE")]

\* what the library may do with these arguments: accept them, or, when a
\* credential is None, raise (a KeyError or an exception of its own)
LibraryAnswers(kw) ==
    IF None \in {kw.API_USERNAME, kw.API_PASSWORD, kw.API_SIGNATURE}
    THEN {Accepted, KeyError, LibraryError}
    ELSE {Accepted}

\* PayPalGateway._init_API: self.interface = PayPalInterface(PayPalConfig(...))
init_API(self, cfg, lib) ==
    IF lib = Accepted
    THEN [self |-> [self EXCEPT !.interface = PayPalConfig(cfg)], err |-> NoErr]
    ELSE [self |-> self, err |-> lib]

\* PayPalGateway.__init__: a KeyError of _init_API becomes a
\* PaymentsConfigurationError, any other exception passes through
PayPalGateway(cfg, lib) ==
    LET r == init_API(NoGateway, cfg, lib)
    IN  IF r.err = KeyError
        THEN [r EXCEPT !.err = PaymentsConfigurationError]
        ELSE r

-----------------------------------------------------------------------------
(* Payments: initialisation *)

\* the gateways mapping of _init_gateway
gateways == {"PayPal"}

\* Payments._init_gateway without its except clause: the KeyError of the
\* lookup reaches the caller
init_gateway_NoExcept(self, gw, cfg, lib) ==
    IF cfg.api \notin gateways
    THEN [payments |-> self, gateway |-> gw, err |-> KeyError, ctor |-> FALSE]
    ELSE LET r == PayPalGateway(cfg, lib)
         IN  IF r.err = NoErr
             THEN [payments |-> [self EXCEPT !.gateway = "PayPalGateway"],
                   gateway |-> r.self, err |-> NoErr, ctor |-> TRUE]
             ELSE [payments |-> self, gateway |-> gw, err |-> r.err, ctor |-> TRUE]

\* Payments._init_gateway: looks the configured key up (None when it is not
\* set); an unknown key is a KeyError, raised as PaymentsConfigurationError
\* before any constructor runs; self.gateway is assigned only when the
\* constructor returns
init_gateway(self, gw, cfg, lib) ==
    IF cfg.api \notin gateways
    THEN [payments |-> self, gateway |-> gw, err |-> PaymentsConfigurationError,
          ctor |-> FALSE]
    ELSE LET r == PayPalGateway(cfg, lib)
         IN  IF r.err = NoErr
             THEN [payments |-> [self EXCEPT !.gateway = "PayPalGateway"],
                   gateway |-> r.self, err |-> NoErr, ctor |-> TRUE]
             ELSE [payments |-> self, gateway |-> gw, err |-> r.err, ctor |-> TRUE]

\* Payments.init_app (Payments.__init__ with an app calls it): the gateway
\* first, then the testing flag and the app reference
init_app(self, gw, cfg, lib) ==
    LET r == init_gateway(self, gw, cfg, lib)
    IN  IF r.err = NoErr
        THEN [r EXCEPT !.payments = [r.payments EXCEPT !.testing = "True", !.app = "app"]]
        ELSE r

-----------------------------------------------------------------------------
(* PayPalGateway: the two flows *)

\* interface.generate_express_checkout_redirect_url(token)
generate_express_checkout_redirect_url(token) ==
    CASE token = "EC-1" -> "webscr?cmd=_express-checkout&token=EC-1"

\* PayPalGateway._setupExpressTransfer keeping the token on the gateway
\* instance as well (self.token = r.token)
setupExpressTransfer_KeepsToken(self, tr, r) ==
    IF r.ack = "Raised" THEN Raise(tr, self, LibraryError, 1)
    ELSE IF r.token = Absent THEN Raise(tr, self, AttributeError, 1)
    ELSE Return([tr EXCEPT !.token = r.token,
                           !.next = generate_express_checkout_redirect_url(r.token)],
                ("token" :> r.token) @@ self, "trans", 1)

\* PayPalGateway._setupExpressTransfer, r the processor's answer to
\* SetExpressCheckout: a
\* raised exception passes through, r.token of a failure response raises
\* AttributeError, and only then are token and next written
setupExpressTransfer(self, tr, r) ==
    IF r.ack = "Raised" THEN Raise(tr, self, LibraryError, 1)
    ELSE IF r.token = Absent THEN Raise(tr, self, AttributeError, 1)
    ELSE Return([tr EXCEPT !.token = r.token,
                           !.next = generate_express_checkout_redirect_url(r.token)],
                self, "trans", 1)

\* PayPalGateway.setupRedirect
PayPalGateway_setupRedirect(self, tr, r) ==
    IF tr.type = Absent THEN Raise(tr, self, AttributeError, 0)
    ELSE IF tr.type = "Express" THEN setupExpressTransfer(self, tr, r)
    ELSE Raise(tr, self, PaymentTransactionValidationError, 0)

\* PayPalGateway._authoriseExpress without its last assignment
authoriseExpress_NoFlag(self, tr, r) ==
    IF Absent \in {tr.token, tr.payerid, tr.amt}
    THEN Raise(tr, self, AttributeError, 0)
    ELSE IF r.ack = "Raised" THEN Raise(tr, self, LibraryError, 1)
    ELSE IF r.TRANSACTIONID = Absent THEN Raise(tr, self, AttributeError, 1)
    ELSE Return([tr EXCEPT !.transactionid = r.TRANSACTIONID, !.raw = r],
                self, "trans", 1)

\* PayPalGateway._authoriseExpress sending token=None instead of reading
\* trans.token
authoriseExpress_NoToken(self, tr, r) ==
    IF Absent \in {tr.payerid, tr.amt}
    THEN Raise(tr, self, AttributeError, 0)
    ELSE IF r.ack = "Raised" THEN Raise(tr, self, LibraryError, 1)
    ELSE IF r.TRANSACTIONID = Absent THEN Raise(tr, self, AttributeError, 1)
    ELSE Return([tr EXCEPT !.transactionid = r.TRANSACTIONID, !.raw = r,
                           !.authorised = TRUE],
                self, "trans", 1)

\* PayPalGateway._authoriseExpress, r the processor's answer to
\* DoExpressCheckoutPayment: the arguments trans.token, trans.payerid and
\* trans.amt are read before the call is made; r.TRANSACTIONID of a failure
\* response raises AttributeError; the three writes come last
authoriseExpress(self, tr, r) ==
    IF Absent \in {tr.token, tr.payerid, tr.amt}
    THEN Raise(tr, self, AttributeError, 0)
    ELSE IF r.ack = "Raised" THEN Raise(tr, self, LibraryError, 1)
    ELSE IF r.TRANSACTIONID = Absent THEN Raise(tr, self, AttributeError, 1)
    ELSE Return([tr EXCEPT !.transactionid = r.TRANSACTIONID, !.raw = r,
                           !.authorised = TRUE],
                self, "trans", 1)

\* PayPalGateway.authorise: the Direct branch is "pass", so the method falls
\* off its end and returns None
PayPalGateway_authorise(self, tr, r) ==
    IF tr.type = Absent THEN Raise(tr, self, AttributeError, 0)
    ELSE IF tr.type = "Express" THEN authoriseExpress(self, tr, r)
    ELSE IF tr.type = "Direct" THEN Return(tr, self, None, 0)
    ELSE Raise(tr, self, PaymentTransactionValidationError, 0)

-----------------------------------------------------------------------------
(* Payments: the two entry points *)

\* a gateway method's outcome as the facade's: the facade itself is left as
\* it was, and gw tells whether the gateway method was entered
Facade(self, out, entered) ==
    [payments |-> self, gateway |-> out.self, trans |-> out.trans,
     err |-> out.err, ret |-> out.ret, gw |-> entered, proc |-> out.proc]

\* Payments.setupRedirect: validate() first; self.gateway of a facade that was
\* never initialised raises AttributeError
Payments_setupRedirect(self, gw, tr, r) ==
    IF validate(tr)
    THEN IF self.gateway = Absent
         THEN Facade(self, Raise(tr, gw, AttributeError, 0), FALSE)
         ELSE Facade(self, PayPalGateway_setupRedirect(gw, tr, r), TRUE)
    ELSE Facade(self, Raise(tr, gw, PaymentTransactionValidationError, 0), FALSE)

\* Payments.authorise
Payments_authorise(self, gw, tr, r) ==
    IF validate(tr)
    THEN IF self.gateway = Absent
         THEN Facade(self, Raise(tr, gw, AttributeError, 0), FALSE)
         ELSE Facade(self, PayPalGateway_authorise(gw, tr, r), TRUE)
    ELSE Facade(self, Raise(tr, gw, PaymentTransactionValidationError, 0), FALSE)

-----------------------------------------------------------------------------
(* The state machine *)

Init ==
    /\ config \in Configs
    /\ payments = NoPayments
    /\ gateway = NoGateway
    /\ alive = {}
    /\ trans = [t \in TransIds |-> NoTransaction]
    /\ returned = {}
    /\ ctorRuns = FALSE
    /\ last = NoCall

\* Payments(app) or Payments().init_app(app), until a gateway is bound
InitApp ==
    /\ payments.gateway = Absent
    /\ \E lib \in LibraryAnswers(PayPalConfig(config)) :
          LET r == init_app(payments, gateway, config, lib)
          IN  /\ payments' = r.payments
              /\ gateway' = r.gateway
              /\ ctorRuns' = (ctorRuns \/ r.ctor)
              /\ last' = [NoCall EXCEPT !.op = "init_app", !.err = r.err]
    /\ UNCHANGED <<config, alive, trans, returned>>

\* trans = Transaction(**kwargs); the objects are numbered as they are made
Construct(t) ==
    /\ t \notin alive
    /\ \A u \in TransIds : u < t => u \in alive
    /\ \E kwargs \in Kwargs :
          /\ trans' = [trans EXCEPT ![t] = Transaction(kwargs)]
          /\ last' = [NoCall EXCEPT !.op = "Transaction", !.t = t,
                                    !.kwargs = KwargNames(kwargs)]
    /\ alive' = alive \cup {t}
    /\ UNCHANGED <<config, payments, gateway, returned, ctorRuns>>

\* the caller, back from the redirect with the token, puts the payer's
\* identifier on the transaction: trans.payerid = ...
AddPayerId(t) ==
    /\ t \in alive
    /\ trans[t].token # Absent
    /\ trans[t].payerid = Absent
    /\ trans' = [trans EXCEPT ![t].payerid = "PAYER1"]
    /\ last' = [NoCall EXCEPT !.op = "payerid", !.t = t]
    /\ UNCHANGED <<config, payments, gateway, alive, returned, ctorRuns>>

\* the record of a call on transaction t that ended as out; the processor's
\* answer is part of it only when a request was sent
Called(op, t, out, r) ==
    [op |-> op, t |-> t, err |-> out.err, ret |-> out.ret, gw |-> out.gw,
     proc |-> out.proc, kwargs |-> {},
     resp |-> IF out.proc > 0 THEN r ELSE NoResponse]

\* payments.setupRedirect(trans)
SetupRedirect(t) ==
    /\ t \in alive
    /\ \E r \in SetResponses :
          LET out == Payments_setupRedirect(payments, gateway, trans[t], r)
          IN  /\ payments' = out.payments
              /\ gateway' = out.gateway
              /\ trans' = [trans EXCEPT ![t] = out.trans]
              /\ last' = Called("setupRedirect", t, out, r)
    /\ UNCHANGED <<config, alive, returned, ctorRuns>>

\* payments.authorise(trans)
Authorise(t) ==
    /\ t \in alive
    /\ \E r \in DoResponses :
          LET out == Payments_authorise(payments, gateway, trans[t], r)
          IN  /\ payments' = out.payments
              /\ gateway' = out.gateway
              /\ trans' = [trans EXCEPT ![t] = out.trans]
              /\ returned' = IF out.ret = "trans" THEN returned \cup {t} ELSE returned
              /\ last' = Called("authorise", t, out, r)
    /\ UNCHANGED <<config, alive, ctorRuns>>

Next ==
    \/ InitApp
    \/ \E t \in TransIds : Construct(t)
    \/ \E t \in TransIds : AddPayerId(t)
    \/ \E t \in TransIds : SetupRedirect(t)
    \/ \E t \in TransIds : Authorise(t)

Spec == Init /\ [][Next]_vars

-----------------------------------------------------------------------------
(* Properties *)

\* the last call was op, on transaction t
Was(op, t) == last.op = op /\ last.t = t

IsCall == last.op \in {"setupRedirect", "authorise"}

\* C1: whenever setupRedirect or authorise is called with a transaction whose
\* validate() returns false, the call fails with PaymentsValidationError and
\* no gateway method is entered.
C1_InvalidRaisesValidationError ==
    (IsCall /\ ~validate(trans[last.t]))
        => (last.err = PaymentsValidationError /\ ~last.gw)

\* C2: the round trip of an Express transaction.  When the processor answers
\* setupRedirect with success the call returns the transaction carrying the
\* token and the redirect URL made from it; authorised is false for as long
\* as authorise has not returned the transaction; and when the processor
\* answers authorise with success the call returns the transaction with
\* authorised true and the transaction identifier the processor returned.
C2_RoundTrip ==
    \A t \in alive :
        /\ (Was("setupRedirect", t) /\ last.resp.ack = "Success")
              => /\ last.err = NoErr /\ last.ret = "trans"
                 /\ trans[t].token = last.resp.token
                 /\ trans[t].next = generate_express_checkout_redirect_url(last.resp.token)
        /\ t \notin returned => ~trans[t].authorised
        /\ (Was("authorise", t) /\ last.resp.ack = "Success")
              => /\ last.err = NoErr /\ last.ret = "trans"
                 /\ trans[t].authorised
                 /\ trans[t].transactionid = last.resp.TRANSACTIONID

\* C2's case: an Express transaction that got its token from setupRedirect
\* has just been authorised
C2_Witness ==
    /\ last.op = "authorise" /\ last.resp.ack = "Success"
    /\ trans[last.t].type = "Express" /\ trans[last.t].token \in Tokens
    /\ trans[last.t].payerid = "PAYER1" /\ trans[last.t].authorised
    /\ trans[last.t].transactionid = "TX-2"

\* C3: in every state, a transaction's authorised flag is true exactly when
\* Payments.authorise has returned that transaction (the gateway's authorise
\* ran to its end on it); no construction, whatever the caller passes, no
\* validation and no setupRedirect makes it true.
C3_AuthorisedIffAuthoriseReturned ==
    \A t \in TransIds : trans[t].authorised <=> t \in returned

\* C3's case: one transaction is authorised, and another has just been
\* constructed with authorised=True passed by the caller
C3_Witness ==
    /\ last.op = "Transaction" /\ "authorised" \in last.kwargs
    /\ ~trans[last.t].authorised
    /\ \E u \in alive : trans[u].authorised

\* C4: when the configured gateway key is not in the gateway mapping (or is
\* not set), init_app fails with PaymentsConfigurationError, the facade has
\* no gateway (nor any other attribute) and no gateway constructor has run.
C4_UnknownKeyFailsFast ==
    config.api \notin gateways
        => /\ last.op = "init_app" => last.err = PaymentsConfigurationError
           /\ payments = NoPayments
           /\ gateway = NoGateway
           /\ ~ctorRuns

\* C4's case: init_app has run with PAYMENT_API not set
C4_Witness ==
    /\ last.op = "init_app" /\ config.api = Absent
    /\ last.err = PaymentsConfigurationError

\* C5: with PAYMENT_API = "PayPal" and a credential field missing from the
\* configuration, init_app fails with PaymentsConfigurationError.
C5_MissingCredentialFailsAtInit ==
    (last.op = "init_app" /\ config.api = "PayPal" /\ config.creds # Credentials)
        => last.err = PaymentsConfigurationError

\* C6: setupRedirect on a valid transaction whose type is not "Express"
\* fails with PaymentsValidationError, sends nothing to the processor and
\* leaves authorised false and the token unset.
C6_UnsupportedTypeRaisesValidationError ==
    \A t \in alive :
        (Was("setupRedirect", t) /\ last.gw /\ trans[t].type \in {"Direct", "Unknown"})
            => /\ last.err = PaymentsValidationError
               /\ last.proc = 0
               /\ ~trans[t].authorised
               /\ trans[t].token = Absent

\* C7: authorise on a "Direct" transaction never returns normally with
\* nothing done: when it returns, it returns the transaction, authorised,
\* after a call to the processor.
C7_DirectNeverSilent ==
    \A t \in alive :
        (Was("authorise", t) /\ last.gw /\ trans[t].type = "Direct" /\ last.err = NoErr)
            => (last.ret = "trans" /\ trans[t].authorised /\ last.proc > 0)

\* C8: when the processor answers authorise's payment request with anything
\* but success (a failure response, or a raised failure), the caller gets
\* PaymentsErrorFromGateway, a transaction not authorised before is not
\* authorised now, and the processor was called once.
C8_FailureRaisesGatewayError ==
    \A t \in alive :
        (Was("authorise", t) /\ last.proc > 0 /\ last.resp.ack # "Success")
            => /\ last.err = PaymentsErrorFromGateway
               /\ t \notin returned => ~trans[t].authorised
               /\ last.proc = 1

\* C9: an Express transaction is authorised only if it carries a token:
\* authorise on one without a token raises, sends nothing to the processor
\* and leaves authorised false.
C9_NoTokenNoAuthorisation ==
    \A t \in alive :
        /\ (trans[t].type = "Express" /\ trans[t].authorised) => trans[t].token # Absent
        /\ (Was("authorise", t) /\ trans[t].type = "Express" /\ trans[t].token = Absent)
              => (last.err # NoErr /\ last.proc = 0 /\ ~trans[t].authorised)

\* C9's case: authorise has reached the gateway with an Express transaction
\* that has a payer identifier and an amount but no token
C9_Witness ==
    /\ last.op = "authorise" /\ last.gw
    /\ trans[last.t].type = "Express" /\ trans[last.t].token = Absent
    /\ trans[last.t].payerid # Absent /\ trans[last.t].amt # Absent
    /\ last.err = AttributeError

\* C10: a setupRedirect or authorise call writes no attribute of the facade
\* and none of the gateway instance, and no attribute of any transaction but
\* its argument; so calls for different transactions, in whatever order they
\* run, leave each transaction as its own calls alone would.
C10_CallsWriteOnlyTheirTransaction ==
    [][last'.op \in {"setupRedirect", "authorise"}
          => /\ payments' = payments
             /\ gateway' = gateway
             /\ \A u \in TransIds \ {last'.t} : trans'[u] = trans[u]]_vars

\* C10's case: on one initialised facade, calls for two transactions have
\* interleaved: both carry a token, one is authorised, and the last call was
\* a setupRedirect for the other
C10_Witness ==
    /\ payments.gateway # Absent
    /\ last.op = "setupRedirect" /\ last.err = NoErr
    /\ \E u \in alive \ {last.t} : trans[u].authorised
    /\ ~trans[last.t].authorised

====
